---- MODULE Spec2Model ----
(***************************************************************************)
(* The decision loop of the trading agent, in its two kernel variants:     *)
(*   "core"    - class TradingCore (start / stop / runLoop /               *)
(*               updateBalances) with RiskManager and ExecutionEngine;     *)
(*   "backend" - startBot / stopBot / loop of backend/server.ts with       *)
(*               runIteration, scanMarkets, executeOrder and               *)
(*               verifySettlementCapability, and the App's handleTrade /   *)
(*               handleIterationUpdate callbacks.                          *)
(*                                                                         *)
(* JavaScript runs one callback at a time: every action below is one run   *)
(* of synchronous code, from a user call, a timer firing or the settling   *)
(* of an awaited network promise up to the next awaited network call.      *)
(* Awaits that settle without a network round trip (an async function      *)
(* with no pending I/O) resume in the microtask queue, before any timer    *)
(* or user event, and so belong to the same action.                        *)
(*                                                                         *)
(* Fixed point: money in cents; prices, probabilities, confidences and     *)
(* every fractional config value in thousandths (1000 = 1.0); gas (POL)    *)
(* in tenths.  Divisions round down.  BotStats.maticBalance / polBalance   *)
(* is only displayed and is left out of RunState.                          *)
(***************************************************************************)
EXTENDS Integers, Sequences, FiniteSets, Bags, TLC

\* ------------------------------------------------------------------ bounds
\* concurrent loop chains (an iteration in flight or its pending timer)
MaxLoops == 2
\* trades a run may record before the environment stops offering edge
MaxTrades == 2

\* ------------------------------------------------------- program constants
\* gas threshold of verifySettlementCapability: 0.1 POL, in tenths
minGas == 1
\* budget gate epsilon: 0.1 quote-currency units, in cents
BudgetEpsilon == 10

\* PRESETS.SAFE, with the execution mode the user selected
PresetSafe(mode) ==
  [ mode                   |-> mode,
    minLiquidityMultiplier |-> 2500,
    maxSpread              |-> 15,
    minEV                  |-> 30,
    minConfidence          |-> 850,
    kellyMultiplier        |-> 50,
    minTradeSize           |-> 100,
    maxTradeSize           |-> 1000,
    maxExposurePerTrade    |-> 10,
    scanIntervalSeconds    |-> 60,
    maxMarketsPerScan      |-> 2 ]

Modes == {"SIMULATION", "LIVE"}
Configs == { PresetSafe(m) : m \in Modes }
NoConfig == [ mode |-> "none" ]

\* ------------------------------------------------------------- environment
\* Order books as getOrderbook / fetchOrderbook return them: best bid and
\* best ask (thousandths), ask levels of (price, size in tokens).
NoBook == [ absent |-> TRUE ]
TightDeep    == [ absent |-> FALSE, bestBid |-> 398, bestAsk |-> 402,
                  asks |-> << [price |-> 402, size |-> 100] >> ]
TightShallow == [ absent |-> FALSE, bestBid |-> 398, bestAsk |-> 402,
                  asks |-> << [price |-> 402, size |-> 5] >> ]
Wide         == [ absent |-> FALSE, bestBid |-> 380, bestAsk |-> 420,
                  asks |-> << [price |-> 420, size |-> 100] >> ]
Books == { TightDeep, TightShallow, Wide }

\* Signals of the reasoning service
NoSignal == [ absent |-> TRUE ]
Edge     == [ absent |-> FALSE, impliedProbability |-> 600, confidence |-> 900 ]
Unsure   == [ absent |-> FALSE, impliedProbability |-> 600, confidence |-> 500 ]
NoEdge   == [ absent |-> FALSE, impliedProbability |-> 300, confidence |-> 900 ]
Thin     == [ absent |-> FALSE, impliedProbability |-> 420, confidence |-> 900 ]
\* what generateMarketSignal of geminiService.ts returns for a response
\* that carries a confidence and no probability: impliedProbability ?? 0.5
Defaulted == [ absent |-> FALSE, impliedProbability |-> 500, confidence |-> 900 ]
Signals == { Edge, Unsure, NoEdge, Thin, Defaulted }

\* Wallet states the balance provider can report: usdc in cents, pol in tenths
Funded  == [ usdc |-> 1000000, pol |-> 100 ]
NoGas   == [ usdc |-> 1000000, pol |-> 0 ]
Empty   == [ usdc |-> 0, pol |-> 0 ]
Wallets == { Funded, NoGas, Empty }

\* capital the user allocates to a run, in cents
Allocations == { 1000 }

\* ------------------------------------------------------------ pure helpers
Min(a, b) == IF a <= b THEN a ELSE b
Max(a, b) == IF a >= b THEN a ELSE b

\* midPrice = (bestBid + bestAsk) / 2
midPrice(book) == (book.bestBid + book.bestAsk) \div 2

\* book.spread > maxSpread, with spread = (bestAsk - bestBid) / midPrice
SpreadTooWide(book, maxSpread) ==
  (book.bestAsk - book.bestBid) * 2 * 1000 > maxSpread * (book.bestBid + book.bestAsk)

\* RiskManager.calculateEV: prob * (1/price - 1) - (1 - prob)
RiskManager_calculateEV(marketPrice, estimatedProb) ==
  IF marketPrice <= 0 \/ marketPrice >= 1000 THEN 0
  ELSE (estimatedProb * (1000 - marketPrice) - (1000 - estimatedProb) * marketPrice)
         \div marketPrice

\* calculateEV of the backend risk manager: prob * (1 - price) - (1 - prob) * price
calculateEV(marketPrice, estimatedProb) ==
  IF marketPrice <= 0 \/ marketPrice >= 1000 THEN 0
  ELSE (estimatedProb * (1000 - marketPrice) - (1000 - estimatedProb) * marketPrice)
         \div 1000

\* Kelly sizing without the cap at maxExposurePerTrade
KellySize_NoCap(balance, marketPrice, estimatedProb, cfg) ==
  LET num == (estimatedProb - marketPrice) * cfg.kellyMultiplier
  IN  ((balance \div 1000) * num + ((balance % 1000) * num) \div 1000)
        \div (1000 - marketPrice)

\* Kelly sizing shared by both risk managers.  b = 1/price - 1,
\* kellyFraction = (b*p - q)/b = (p - price)/(1 - price); the fraction is
\* scaled by kellyMultiplier and capped at maxExposurePerTrade.
\* balance * num / den is computed in two parts, thousands of the balance
\* first, so that the product stays within the integers of the checker.
KellySize(balance, marketPrice, estimatedProb, cfg) ==
  LET num == (estimatedProb - marketPrice) * cfg.kellyMultiplier
  IN  IF num <= cfg.maxExposurePerTrade * (1000 - marketPrice)
      THEN ((balance \div 1000) * num + ((balance % 1000) * num) \div 1000)
             \div (1000 - marketPrice)
      ELSE (balance * cfg.maxExposurePerTrade) \div 1000

\* RiskManager.calculatePositionSize
RiskManager_calculatePositionSize(marketPrice, estimatedProb, balance, cfg) ==
  IF marketPrice <= 0 \/ marketPrice >= 1000 THEN 0
  ELSE IF estimatedProb <= marketPrice THEN 0
  ELSE LET size == Min(Max(KellySize(balance, marketPrice, estimatedProb, cfg), 0),
                       cfg.maxTradeSize)
       IN  IF size < cfg.minTradeSize THEN 0 ELSE size

\* calculatePositionSize of the backend risk manager (reads ACTIVE_CONFIG)
calculatePositionSize(balance, marketPrice, estimatedProb, cfg) ==
  IF marketPrice <= 0 \/ marketPrice >= 1000 THEN 0
  ELSE IF estimatedProb <= marketPrice THEN 0
  ELSE LET size == Min(KellySize(balance, marketPrice, estimatedProb, cfg),
                       cfg.maxTradeSize)
       IN  IF size >= cfg.minTradeSize THEN size ELSE 0

RECURSIVE DepthSum(_, _)
\* sum of size * price over the first n ask levels, in cents
DepthSum(asks, n) ==
  IF n = 0 THEN 0
  ELSE DepthSum(asks, n - 1) + (asks[n].size * asks[n].price) \div 10

\* availableDepth of runLoop's final liquidity check: top 5 ask levels
availableDepth(book) == DepthSum(book.asks, Min(Len(book.asks), 5))

\* availableDepth < requiredDepth, requiredDepth = size * minLiquidityMultiplier
DepthTooThin(book, size, cfg) ==
  availableDepth(book) * 1000 < size * cfg.minLiquidityMultiplier

\* [trade, ...activeTrades].slice(0, 10)
PushTrade(trade, trades) == SubSeq(<<trade>> \o trades, 1, Min(Len(trades) + 1, 10))


\* ------------------------------------------------------------------- state
VARIABLES
  impl,          \* which kernel the application was built with
  running,       \* TradingCore.isRunning / server.ts running
  config,        \* TradingCore.config / ACTIVE_CONFIG
  stats,         \* RunState: BotStats
  activeTrades,  \* trades recorded, newest first
  loops,         \* bag of loop chains: where each async loop is suspended
  calc           \* the library function last applied on its own, with its
                 \* arguments and result (none while a kernel runs)

vars == << impl, running, config, stats, activeTrades, loops, calc >>

\* no library function has been applied on its own
NoCalc == [ fn |-> "none" ]

\* A loop chain is one activation of runLoop / loop together with the timer
\* that re-invokes it.  Chains in the same position are interchangeable, so
\* they are kept as a bag.  Fields:
\*   pc       the awaited call the async function is suspended at, or "timer"
\*            while its setTimeout is pending
\*   handle   loopTimeout holds the id of this chain's pending timer
\*   address  closure variable of startBot: a wallet address was passed
\*   balance  runIteration's balance parameter
\*   left     TradingCore: candidates not yet begun
\*   raw      scanMarkets: tradable raw markets not yet fetched
\*   cands    scanMarkets results, then the candidates not yet begun
\*   book     order book of the candidate being evaluated
\*   size     position size of the order being executed
\*   trade    how the iteration's last execute call ended: "none" (not
\*            called), "blocked" (absent: settlement not verified),
\*            "absent" (absent: order rejected or submit failed) or "filled"
\*   faulted  the catch block ran and no await of a later iteration has
\*            settled since
\*   delay    the delay the pending timer was set with, in milliseconds
\* Idle is a chain that has ended: it is not kept in the bag.
Idle ==
  [ pc |-> "free", handle |-> FALSE, address |-> FALSE, balance |-> 0,
    left |-> 0, raw |-> 0, cands |-> << >>, book |-> NoBook, size |-> 0,
    trade |-> "none", faulted |-> FALSE, delay |-> 0 ]

INITIAL_STATS ==
  [ allocatedCapital |-> 0, cumulativeSpent |-> 0, usdcBalance |-> 0,
    totalTrades |-> 0 ]

\* ACTIVE_CONFIG starts as a preset nothing reads before updateConfig
Init ==
  /\ impl \in {"core", "backend"}
  /\ running = FALSE
  /\ config = NoConfig
  /\ stats = INITIAL_STATS
  /\ activeTrades = << >>
  /\ loops = EmptyBag
  /\ calc = NoCalc

Chains == BagToSet(loops)
InFlight(l) == l.pc \notin {"free", "timer"}
\* number of loops suspended at an await
InFlightCount ==
  BagCardinality([ l \in { x \in Chains : InFlight(x) } |-> loops[l] ])
\* number of pending timers
TimerCount ==
  BagCardinality([ l \in { x \in Chains : x.pc = "timer" } |-> loops[l] ])

\* the environment offers a fill only while the run is below MaxTrades
MayFill == stats.totalTrades < MaxTrades

\* a loop that gives up after a caught fault instead of rescheduling
FinallyPc_NoRetry(isRunning, faulted) ==
  IF isRunning /\ ~faulted THEN "timer" ELSE "free"

\* try/finally of runLoop and of loop: reschedule only while still running
FinallyPc(isRunning, faulted) == IF isRunning THEN "timer" ELSE "free"

\* the delay finally passes to setTimeout: scanIntervalSeconds * 1000,
\* whether or not the catch block ran
scanInterval(cfg) == cfg.scanIntervalSeconds * 1000

\* the chain after the finally block: `loopTimeout = setTimeout(...)` or ended
Finally(l) ==
  LET pc == FinallyPc(running, l.faulted)
  IN  [ Idle EXCEPT !.pc = pc,
                    !.handle = (pc = "timer"),
                    !.delay = IF pc = "timer" THEN scanInterval(config) ELSE 0,
                    !.address = running /\ l.address,
                    !.faulted = running /\ l.faulted ]

\* an assignment to loopTimeout: no other pending timer is named by it
Unmark(b) ==
  LET hs == { h \in BagToSet(b) : h.handle }
  IN  IF hs = {} THEN b
      ELSE LET h == CHOOSE x \in hs : TRUE
           IN  (b (-) SetToBag({h})) (+) SetToBag({[ h EXCEPT !.handle = FALSE ]})

Put(l) == IF l = Idle THEN EmptyBag ELSE SetToBag({l})

\* the bag after chain l ran up to its next suspension l2
Moved(l, l2) ==
  IF l2.handle THEN Unmark(loops (-) SetToBag({l})) (+) Put(l2)
  ELSE (loops (-) SetToBag({l})) (+) Put(l2)

\* clearTimeout(loopTimeout): the timer is dropped if it is still pending
ClearTimeout ==
  LET hs == { h \in Chains : h.handle }
  IN  IF hs = {} THEN loops ELSE loops (-) SetToBag(hs)

\* one step of chain l that leaves the run flag and the config alone
LoopStep(l, l2) ==
  /\ loops' = Moved(l, l2)
  /\ UNCHANGED << impl, calc, running, config >>

\* ------------------------------------------------------------- TradingCore
\* top of `for (const m of candidates)`: stop check, then await getOrderbook
CoreForTop(l) ==
  IF l.left = 0 \/ ~running THEN Finally(l)
  ELSE [ l EXCEPT !.pc = "book", !.left = @ - 1, !.book = NoBook ]

\* runLoop up to its first await
CoreRunLoop(isRunning, cfg, l) ==
  IF ~isRunning \/ cfg = NoConfig THEN Idle
  ELSE [ Idle EXCEPT !.pc = "markets", !.faulted = l.faulted ]

\* TradingCore.start(config, allocatedUsdc)
Start(cfg, allocatedUsdc) ==
  /\ impl = "core"
  /\ BagCardinality(loops) < MaxLoops
  /\ config' = cfg
  /\ running' = TRUE
  /\ stats' = [ stats EXCEPT !.allocatedCapital = allocatedUsdc,
                             !.cumulativeSpent = 0 ]
  /\ activeTrades' = << >>
  /\ loops' = loops (+) Put(CoreRunLoop(TRUE, cfg, Idle))
  /\ UNCHANGED << impl, calc >>

\* TradingCore.stop()
Stop ==
  /\ impl = "core"
  /\ running' = FALSE
  /\ loops' = ClearTimeout
  /\ UNCHANGED << impl, calc, config, stats, activeTrades >>

\* TradingCore.updateBalances(usdc, matic)
UpdateBalances(w) ==
  /\ impl = "core"
  /\ stats' = [ stats EXCEPT !.usdcBalance = w.usdc ]
  /\ UNCHANGED << impl, calc, running, config, activeTrades, loops >>

\* the timer set by runLoop's finally block fires: runLoop again
CoreTimerFire(l) ==
  /\ impl = "core"
  /\ l.pc = "timer"
  /\ LoopStep(l, CoreRunLoop(running, config, l))
  /\ UNCHANGED << stats, activeTrades >>

\* what GET /markets can answer: a 2xx body, a non-2xx status, or the fetch
\* itself rejecting
Responses == { "ok", "non2xx", "networkError" }

\* getTradableMarkets / fetchMarkets without their try/catch: a failed
\* request reaches the caller as an exception
ListingThrows_NoCatch(response) == response # "ok"

\* the listing call rejects: never, a failed request is caught inside
\* getTradableMarkets / fetchMarkets and answered with []
ListingThrows(response) == FALSE

\* how many markets a listing call can hand to the loop
Listed(response, most) == IF response = "ok" THEN 0..most ELSE {0}

\* await clob.getTradableMarkets settles; at most maxMarketsPerScan markets
\* are kept.  A rejection would run runLoop's catch and finally
CoreMarketsReturn(l, response) ==
  /\ impl = "core"
  /\ l.pc = "markets"
  /\ IF ListingThrows(response)
     THEN LoopStep(l, Finally([ l EXCEPT !.faulted = TRUE ]))
     ELSE \E n \in Listed(response, config.maxMarketsPerScan) :
            LoopStep(l, CoreForTop([ l EXCEPT !.left = n, !.faulted = FALSE ]))
  /\ UNCHANGED << stats, activeTrades >>

\* await clob.getOrderbook settles: absent or too wide skip the candidate
CoreBookReturn(l, book) ==
  /\ impl = "core"
  /\ l.pc = "book"
  /\ LoopStep(l, IF book = NoBook \/ SpreadTooWide(book, config.maxSpread)
                 THEN CoreForTop(l)
                 ELSE [ l EXCEPT !.pc = "signal", !.book = book ])
  /\ UNCHANGED << stats, activeTrades >>

\* the candidate clears EV, confidence, size and depth of runLoop
CorePasses(book, signal, size) ==
  /\ RiskManager_calculateEV(midPrice(book), signal.impliedProbability) >= config.minEV
  /\ signal.confidence >= config.minConfidence
  /\ size > 0
  /\ ~DepthTooThin(book, size, config)

\* the null an execute call returns instead of a Trade
NoTrade == [ absent |-> TRUE, size |-> 0, isSimulated |-> FALSE ]

\* ExecutionEngine.execute: simulateFill or placeLiveOrder, both return a Trade
ExecutionEngine_execute(mode, size) ==
  [ absent |-> FALSE, size |-> size, isSimulated |-> (mode = "SIMULATION") ]

\* await generateMarketSignal settles with a signal or with absent; execute
\* has no pending I/O, so a fill is recorded in the same run of code
CoreSignalReturn(l, signal) ==
  /\ impl = "core"
  /\ l.pc = "signal"
  /\ LET size == IF signal = NoSignal THEN 0
                 ELSE RiskManager_calculatePositionSize(midPrice(l.book),
                        signal.impliedProbability, stats.usdcBalance, config)
     IN  IF signal # NoSignal /\ CorePasses(l.book, signal, size)
         THEN /\ MayFill
              /\ activeTrades' =
                   PushTrade(ExecutionEngine_execute(config.mode, size), activeTrades)
              /\ stats' = [ stats EXCEPT !.totalTrades = @ + 1,
                                         !.cumulativeSpent = @ + size,
                                         !.usdcBalance = @ - size ]
              /\ LoopStep(l, CoreForTop([ l EXCEPT !.trade = "filled" ]))
         ELSE /\ LoopStep(l, CoreForTop(l))
              /\ UNCHANGED << stats, activeTrades >>

\* generateMarketSignal rejects: catch logs the fault, finally reschedules
CoreFault(l) ==
  /\ impl = "core"
  /\ l.pc = "signal"
  /\ LoopStep(l, Finally([ l EXCEPT !.faulted = TRUE ]))
  /\ UNCHANGED << stats, activeTrades >>

CoreNext ==
  \/ \E cfg \in Configs, a \in Allocations : Start(cfg, a)
  \/ Stop
  \/ \E w \in Wallets : UpdateBalances(w)
  \/ \E l \in Chains : CoreTimerFire(l)
  \/ \E l \in Chains, r \in Responses : CoreMarketsReturn(l, r)
  \/ \E l \in Chains, b \in Books \cup {NoBook} : CoreBookReturn(l, b)
  \/ \E l \in Chains, s \in Signals \cup {NoSignal} : CoreSignalReturn(l, s)
  \/ \E l \in Chains : CoreFault(l)

\* ------------------------------------------------------- backend/server.ts
RECURSIVE SkipWide(_, _)
\* runIteration's spread pre-filter: the candidates from the first one whose
\* spread is within maxSpread
SkipWide(cands, maxSpread) ==
  IF cands = << >> THEN << >>
  ELSE IF SpreadTooWide(Head(cands), maxSpread) THEN SkipWide(Tail(cands), maxSpread)
  ELSE cands

\* top of runIteration's `for (const { market, book } of candidates)`: up to
\* the await of generateMarketSignal, or out of the loop and through finally
ForTop(l) ==
  LET rest == SkipWide(l.cands, config.maxSpread)
  IN  IF rest = << >> THEN Finally(l)
      ELSE [ l EXCEPT !.pc = "signal", !.book = Head(rest), !.cands = Tail(rest),
                      !.size = 0 ]

\* runIteration without the `if (trade)` test: whatever executeOrder returns
\* is pushed
TradePushed_Always(trade) == TRUE

\* `if (trade)` of runIteration: only a present trade is pushed and ends the scan
TradePushed(trade) == trade # NoTrade

\* handleTrade, the onTrade callback
handleTrade(trade, st) ==
  [ st EXCEPT !.totalTrades = @ + 1, !.cumulativeSpent = @ + trade.size ]

\* handleIterationUpdate, the onIterationComplete callback
handleIterationUpdate(balances, st) ==
  [ st EXCEPT !.usdcBalance = balances.usdc ]

\* the body of `loop` up to its first network await; getBalances answers
\* without I/O when no address was passed
LoopBody(isRunning, l) ==
  IF ~isRunning THEN Idle
  ELSE IF l.address
  THEN [ Idle EXCEPT !.pc = "balances", !.address = TRUE, !.faulted = l.faulted ]
  ELSE [ Idle EXCEPT !.pc = "markets", !.faulted = l.faulted ]

\* onIterationComplete(balances) of a loop body that did not await getBalances
StatsAfterLoopBody(isRunning, l) ==
  IF isRunning /\ ~l.address THEN handleIterationUpdate(Empty, stats) ELSE stats

\* startBot(config, address, onTrade, onIterationComplete)
startBot(cfg, address) ==
  /\ impl = "backend"
  /\ ~running
  /\ BagCardinality(loops) < MaxLoops
  /\ running' = TRUE
  /\ config' = cfg
  /\ loops' = loops (+) Put(LoopBody(TRUE, [ Idle EXCEPT !.address = address ]))
  /\ stats' = StatsAfterLoopBody(TRUE, [ Idle EXCEPT !.address = address ])
  /\ UNCHANGED << impl, calc, activeTrades >>

\* stopBot()
stopBot ==
  /\ impl = "backend"
  /\ running' = FALSE
  /\ loops' = ClearTimeout
  /\ UNCHANGED << impl, calc, config, stats, activeTrades >>

\* the timer set by loop's finally block fires: loop again
TimerFire(l) ==
  /\ impl = "backend"
  /\ l.pc = "timer"
  /\ LoopStep(l, LoopBody(running, l))
  /\ stats' = StatsAfterLoopBody(running, l)
  /\ UNCHANGED activeTrades

\* await getBalances settles: onIterationComplete, then runIteration up to
\* scanMarkets' fetchMarkets.  The wallet read here is a funded one; a zero
\* balance is the iteration that runs without an address
BalancesReturn(l, w) ==
  /\ impl = "backend"
  /\ l.pc = "balances"
  /\ stats' = handleIterationUpdate(w, stats)
  /\ LoopStep(l, [ l EXCEPT !.pc = "markets", !.balance = w.usdc,
                            !.faulted = FALSE ])
  /\ UNCHANGED activeTrades

\* scanMarkets: after a book fetch, fetch the next one or return the results
ScanNext(l) ==
  IF l.raw = 0 \/ Len(l.cands) >= config.maxMarketsPerScan
  THEN ForTop([ l EXCEPT !.raw = 0 ])
  ELSE [ l EXCEPT !.pc = "scanbook", !.raw = @ - 1 ]

\* await clob.fetchMarkets settles with n tradable markets; one more than
\* maxMarketsPerScan reaches scanMarkets' cap.  A rejection would pass
\* through scanMarkets and runIteration to loop's catch and finally
MarketsReturn(l, response) ==
  /\ impl = "backend"
  /\ l.pc = "markets"
  /\ IF ListingThrows(response)
     THEN LoopStep(l, Finally([ l EXCEPT !.faulted = TRUE ]))
     ELSE \E n \in Listed(response, config.maxMarketsPerScan + 1) :
            LoopStep(l, ScanNext([ l EXCEPT !.raw = n, !.faulted = FALSE ]))
  /\ UNCHANGED << stats, activeTrades >>

\* await clob.fetchOrderbook settles inside scanMarkets: absent books are
\* dropped.  The scanner is offered a wide book and a tight one; the tight
\* one is thin, and the backend reads only spread and mid price of a book
ScanBookReturn(l, book) ==
  /\ impl = "backend"
  /\ l.pc = "scanbook"
  /\ LoopStep(l, ScanNext(IF book = NoBook THEN l
                          ELSE [ l EXCEPT !.cands = Append(@, book) ]))
  /\ UNCHANGED << stats, activeTrades >>

\* the candidate clears the EV, confidence and size gates of runIteration
Passes(book, signal, size) ==
  /\ ~ ( calculateEV(midPrice(book), signal.impliedProbability) < config.minEV
         \/ signal.confidence < config.minConfidence )
  /\ size > 0

\* runIteration after executeOrder returned: a present trade is pushed, ends
\* the scan and is handed to onTrade; an absent one moves to the next candidate
AfterExecute(l, trade, outcome) ==
  IF TradePushed(trade)
  THEN /\ activeTrades' = PushTrade(trade, activeTrades)
       /\ stats' = handleTrade(trade, stats)
       /\ LoopStep(l, Finally(l))
  ELSE /\ LoopStep(l, ForTop([ l EXCEPT !.trade = outcome ]))
       /\ UNCHANGED << stats, activeTrades >>

\* await generateMarketSignal settles with a signal or with absent; in
\* simulation executeOrder fills at once, live it first awaits
\* verifySettlementCapability, which answers at once without an address
SignalReturn(l, signal) ==
  /\ impl = "backend"
  /\ l.pc = "signal"
  /\ LET size == IF signal = NoSignal THEN 0
                 ELSE calculatePositionSize(l.balance, midPrice(l.book),
                                            signal.impliedProbability, config)
     IN  IF signal = NoSignal \/ ~Passes(l.book, signal, size)
         THEN /\ LoopStep(l, ForTop(l))
              /\ UNCHANGED << stats, activeTrades >>
         ELSE IF config.mode = "SIMULATION"
         THEN /\ MayFill
              /\ AfterExecute(l, [ absent |-> FALSE, size |-> size,
                                   isSimulated |-> TRUE ], "filled")
         ELSE IF ~l.address
         THEN AfterExecute(l, NoTrade, "blocked")
         ELSE /\ LoopStep(l, [ l EXCEPT !.pc = "verify", !.size = size,
                                        !.trade = "none" ])
              /\ UNCHANGED << stats, activeTrades >>

\* verifySettlementCapability after its getBalances settled
canSettle(w, size) == ~ (w.usdc < size) /\ ~ (w.pol < minGas)

\* executeOrder after verifySettlementCapability: absent, or sign and POST
VerifyReturn(l, w) ==
  /\ impl = "backend"
  /\ l.pc = "verify"
  /\ IF canSettle(w, l.size)
     THEN /\ LoopStep(l, [ l EXCEPT !.pc = "submit" ])
          /\ UNCHANGED << stats, activeTrades >>
     ELSE AfterExecute(l, NoTrade, "blocked")

\* the POST to the CLOB settles: ok gives a live Trade, a rejection or a
\* network error gives absent
SubmitReturn(l, ok) ==
  /\ impl = "backend"
  /\ l.pc = "submit"
  /\ ok => MayFill
  /\ AfterExecute(l, IF ok THEN [ absent |-> FALSE, size |-> l.size,
                                  isSimulated |-> FALSE ]
                     ELSE NoTrade,
                  IF ok THEN "filled" ELSE "absent")

\* generateMarketSignal rejects: loop's catch logs, finally reschedules
Fault(l) ==
  /\ impl = "backend"
  /\ l.pc = "signal"
  /\ LoopStep(l, Finally([ l EXCEPT !.faulted = TRUE ]))
  /\ UNCHANGED << stats, activeTrades >>

BackendNext ==
  \/ \E cfg \in Configs, a \in BOOLEAN : startBot(cfg, a)
  \/ stopBot
  \/ \E l \in Chains : TimerFire(l)
  \/ \E l \in Chains, w \in {Funded} : BalancesReturn(l, w)
  \/ \E l \in Chains, r \in Responses : MarketsReturn(l, r)
  \/ \E l \in Chains, b \in {TightShallow, Wide, NoBook} : ScanBookReturn(l, b)
  \/ \E l \in Chains, s \in Signals \cup {NoSignal} : SignalReturn(l, s)
  \/ \E l \in Chains, w \in Wallets : VerifyReturn(l, w)
  \/ \E l \in Chains, ok \in BOOLEAN : SubmitReturn(l, ok)
  \/ \E l \in Chains : Fault(l)

Next == CoreNext \/ BackendNext

Spec == Init /\ [][Next]_vars

\* ------------------------------------------- configurations off the presets
\* BotConfig objects the settings panel can hand to a start call: the SAFE
\* preset with minTradeSize above maxTradeSize, and with a liquidity
\* multiplier of 0.5
InvalidConfigs ==
  { [ PresetSafe("SIMULATION") EXCEPT !.minTradeSize = 2000 ],
    [ PresetSafe("SIMULATION") EXCEPT !.minLiquidityMultiplier = 500 ] }

\* start / startBot called with such a configuration: neither inspects it
StartInvalid ==
  \E cfg \in InvalidConfigs :
    \/ \E a \in Allocations : Start(cfg, a)
    \/ \E a \in BOOLEAN : startBot(cfg, a)

ValidationNext == Next \/ StartInvalid

ValidationSpec == Init /\ [][ValidationNext]_vars

\* ------------------------------------------------- library functions alone
\* RISK_LIMITS of constants.tsx, in thousandths
RISK_LIMITS ==
  [ maxExposurePerTrade |-> 50, kellyMultiplier |-> 200, minConfidence |-> 700 ]

\* calculateKellySize of services/tradingEngine.ts: Kelly fraction scaled by
\* RISK_LIMITS.kellyFraction, capped at RISK_LIMITS.maxSingleTradeExposure
calculateKellySize(marketPrice, estimatedProb, balance) ==
  IF marketPrice <= 0 \/ marketPrice >= 1000 THEN 0
  ELSE IF estimatedProb <= marketPrice THEN 0
  ELSE KellySize(balance, marketPrice, estimatedProb, RISK_LIMITS)

\* arguments the functions are applied to
Prices == { 0, 50, 400, 950, 1000 }
Probs == { 0, 300, 420, 600, 1000 }
Balances == { 0, 5000, 100000, 500000 }
Sizers == { "RiskManager.calculatePositionSize", "calculatePositionSize",
            "calculateKellySize" }

LibInit ==
  /\ impl = "lib"
  /\ running = FALSE
  /\ config = NoConfig
  /\ stats = INITIAL_STATS
  /\ activeTrades = << >>
  /\ loops = EmptyBag
  /\ calc = NoCalc

\* one of the position sizing functions is applied
PositionSizeCall(by, marketPrice, estimatedProb, balance, cfg) ==
  /\ impl = "lib"
  /\ calc' = [ fn |-> "positionSize", by |-> by, marketPrice |-> marketPrice,
               estimatedProb |-> estimatedProb, balance |-> balance, cfg |-> cfg,
               out |-> CASE by = "RiskManager.calculatePositionSize" ->
                              RiskManager_calculatePositionSize(marketPrice,
                                estimatedProb, balance, cfg)
                         [] by = "calculatePositionSize" ->
                              calculatePositionSize(balance, marketPrice,
                                estimatedProb, cfg)
                         [] by = "calculateKellySize" ->
                              calculateKellySize(marketPrice, estimatedProb, balance) ]
  /\ UNCHANGED << impl, running, config, stats, activeTrades, loops >>

Evaluators == { "RiskManager.calculateEV", "calculateEV" }

\* one of the expected value functions is applied
ExpectedValueCall(by, marketPrice, estimatedProb) ==
  /\ impl = "lib"
  /\ calc' = [ fn |-> "expectedValue", by |-> by, marketPrice |-> marketPrice,
               estimatedProb |-> estimatedProb,
               out |-> IF by = "calculateEV"
                       THEN calculateEV(marketPrice, estimatedProb)
                       ELSE RiskManager_calculateEV(marketPrice, estimatedProb) ]
  /\ UNCHANGED << impl, running, config, stats, activeTrades, loops >>

\* fetchWithRetry's default arguments
maxRetries == 3
initialDelay == 3000

\* the two versions of generateMarketSignal
Estimators == { "geminiService", "part_013" }
\* what the reasoning service answers to one request: a text with both
\* fields, a text without the probability, a rate-limit error, another error
Answers == { "signal", "noProbability", "rateLimit", "error" }

Pending == [ kind |-> "pending" ]
Thrown == [ kind |-> "thrown" ]
Absent == [ kind |-> "absent" ]
Estimate(p, c) == [ kind |-> "signal", impliedProbability |-> p, confidence |-> c ]

\* the function passed to fetchWithRetry, after its request settled:
\* geminiService.ts defaults a missing field to 0.5 and rethrows errors,
\* part_013 returns null without the probability and on every error
Attempt(by, answer) ==
  IF by = "geminiService"
  THEN CASE answer = "signal" -> Estimate(600, 900)
         [] answer = "noProbability" -> Estimate(500, 900)
         [] OTHER -> Thrown
  ELSE CASE answer = "signal" -> Estimate(600, 900)
         [] OTHER -> Absent

\* generateMarketSignal(market): fetchWithRetry issues the first request
EstimateCall(by) ==
  /\ impl = "lib"
  /\ calc' = [ fn |-> "estimateSignal", by |-> by, pc |-> "request", i |-> 0,
               waits |-> << >>, answer |-> "none", out |-> Pending ]
  /\ UNCHANGED << impl, running, config, stats, activeTrades, loops >>

\* the request of attempt i settles: fetchWithRetry returns the result,
\* or waits initialDelay * 2^i after a rate-limit error that is not the
\* last attempt's, or rethrows
ServiceAnswers(answer) ==
  /\ impl = "lib"
  /\ calc.fn = "estimateSignal"
  /\ calc.pc = "request"
  /\ LET r == Attempt(calc.by, answer)
     IN  calc' =
           IF r # Thrown
           THEN [ calc EXCEPT !.pc = "done", !.answer = answer, !.out = r ]
           ELSE IF answer = "rateLimit" /\ calc.i < maxRetries - 1
           THEN [ calc EXCEPT !.pc = "delay", !.answer = answer,
                              !.waits = Append(@, initialDelay * 2^(calc.i)) ]
           ELSE [ calc EXCEPT !.pc = "done", !.answer = answer, !.out = Thrown ]
  /\ UNCHANGED << impl, running, config, stats, activeTrades, loops >>

\* await delay(waitTime) settles: the for loop issues the next request
DelayElapsed ==
  /\ impl = "lib"
  /\ calc.fn = "estimateSignal"
  /\ calc.pc = "delay"
  /\ calc.i + 1 < maxRetries
  /\ calc' = [ calc EXCEPT !.pc = "request", !.i = @ + 1 ]
  /\ UNCHANGED << impl, running, config, stats, activeTrades, loops >>

\* ---- market listing
\* one raw market of the response body.  tokens tells whether its token
\* list holds a token labelled "yes", only other labels, or no token at all
RawMarkets ==
  [ closed : BOOLEAN, archived : BOOLEAN, accepting_orders : BOOLEAN,
    enable_order_book : BOOLEAN, tokens : {"yes", "other", "none"} ]

\* accepting_orders && enable_order_book && !closed && !archived
isTradable(m) ==
  m.accepting_orders /\ m.enable_order_book /\ ~m.closed /\ ~m.archived

\* the result of a listing call on a body of one raw market: whether the
\* call threw, whether the market is in the returned list, and the stats
\* object where the function returns one
NoStats == [ absent |-> TRUE ]
Listing(threw, returned, st) == [ threw |-> threw, returned |-> returned, stats |-> st ]

\* ClobClient.getTradableMarkets without its try/catch: "CLOB_OFFLINE" or
\* the rejected fetch reaches the caller
getTradableMarkets_NoCatch(response, m, binaryOnly) ==
  IF response # "ok" THEN Listing(TRUE, FALSE, NoStats)
  ELSE IF ~isTradable(m) THEN Listing(FALSE, FALSE, NoStats)
  ELSE IF binaryOnly /\ m.tokens # "yes" THEN Listing(FALSE, FALSE, NoStats)
  ELSE IF m.tokens = "none" THEN Listing(TRUE, FALSE, NoStats)
  ELSE Listing(FALSE, TRUE, NoStats)

\* ClobClient.getTradableMarkets: a failed fetch throws inside try; so does
\* the map over a market without tokens; catch returns []
getTradableMarkets(response, m, binaryOnly) ==
  IF response # "ok" THEN Listing(FALSE, FALSE, NoStats)
  ELSE IF ~isTradable(m) THEN Listing(FALSE, FALSE, NoStats)
  ELSE IF binaryOnly /\ m.tokens # "yes" THEN Listing(FALSE, FALSE, NoStats)
  ELSE IF m.tokens = "none" THEN Listing(FALSE, FALSE, NoStats)
  ELSE Listing(FALSE, TRUE, NoStats)

\* scanMarkets over ClobClient.fetchMarkets (which answers [] on any
\* failure): the flag filter, the yes token or the first token, and the
\* order book fetched for it; ACTIVE_CONFIG.binaryOnly is not read
scanMarkets(response, m, hasBook) ==
  IF response # "ok" THEN Listing(FALSE, FALSE, NoStats)
  ELSE Listing(FALSE, isTradable(m) /\ m.tokens # "none" /\ hasBook, NoStats)

\* fetchLiveMarkets: takes no config; counts what it discards
fetchLiveMarkets(response, m) ==
  IF response # "ok"
  THEN Listing(FALSE, FALSE, [ total |-> 0, discarded |-> 0, tradable |-> 0 ])
  ELSE IF isTradable(m) /\ m.tokens # "none"
  THEN Listing(FALSE, TRUE, [ total |-> 1, discarded |-> 0, tradable |-> 1 ])
  ELSE Listing(FALSE, FALSE, [ total |-> 1, discarded |-> 1, tradable |-> 0 ])

Listers == { "getTradableMarkets", "scanMarkets", "fetchLiveMarkets" }

\* one of the listing functions is applied to a response; hasBook is the
\* answer of the order book fetch, which only scanMarkets makes
ListMarketsCall(by, response, m, binaryOnly, hasBook) ==
  /\ impl = "lib"
  /\ by \in Listers
  /\ by # "scanMarkets" => hasBook
  /\ calc' = [ fn |-> "listTradableMarkets", by |-> by, response |-> response,
               raw |-> m, binaryOnly |-> binaryOnly, hasBook |-> hasBook,
               out |-> CASE by = "getTradableMarkets" ->
                              getTradableMarkets(response, m, binaryOnly)
                         [] by = "scanMarkets" -> scanMarkets(response, m, hasBook)
                         [] by = "fetchLiveMarkets" -> fetchLiveMarkets(response, m) ]
  /\ UNCHANGED << impl, running, config, stats, activeTrades, loops >>

\* ---- yes token of a tradable market
\* outcome labels as the gateway spells them, and String.toLowerCase on them
Labels == { "Yes", "No", "TRUE", "Over", "Up" }
toLowerCase ==
  [ x \in Labels |->
      CASE x = "Yes" -> "yes" [] x = "No" -> "no" [] x = "TRUE" -> "true"
        [] x = "Over" -> "over" [] x = "Up" -> "up" ]

\* the tokens array of a raw market: up to two tokens, the i-th one with
\* token_id "t<i>".  A raw market is tokens with isArray, which is false when
\* its tokens field is missing (tokens is then empty)
TokenIdAt == << "t1", "t2" >>
TokenLists ==
  { << >> } \cup
  { << [outcome |-> a, token_id |-> TokenIdAt[1]] >> : a \in Labels } \cup
  { << [outcome |-> a, token_id |-> TokenIdAt[1]],
       [outcome |-> b, token_id |-> TokenIdAt[2]] >> : a \in Labels, b \in Labels }
NoToken == [ absent |-> TRUE ]

\* tokens.find(t => labels.includes(t.outcome?.toLowerCase())): the first
\* match, or undefined
find(tokens, labels) ==
  LET hits == { i \in 1..Len(tokens) : toLowerCase[tokens[i].outcome] \in labels }
  IN  IF hits = {} THEN NoToken
      ELSE tokens[CHOOSE i \in hits : \A j \in hits : i <= j]

\* tokens[0]
first(tokens) == IF tokens = << >> THEN NoToken ELSE tokens[1]

\* a || b on tokens
orElse(a, b) == IF a = NoToken THEN b ELSE a

\* what a listing function makes of one tradable raw market: whether the
\* whole listing was lost to an exception, whether the market is returned,
\* and its yesTokenId
Selected(failed, listed, yesTokenId) ==
  [ failed |-> failed, listed |-> listed, yesTokenId |-> yesTokenId ]

\* fetchLiveMarkets of services/tradingEngine.ts
fetchLiveMarkets_yesToken(isArray, tokens) ==
  IF ~isArray \/ tokens = << >> THEN Selected(FALSE, FALSE, "")
  ELSE LET yesToken ==
             orElse(find(tokens, {"yes", "true", "will happen", "hit", "over"}),
                    first(tokens))
       IN  Selected(FALSE, TRUE, yesToken.token_id)

\* ClobClient.getTradableMarkets: the filter reads m.tokens?.some only under
\* binaryOnly; the map reads m.tokens.find and yesToken.token_id unguarded,
\* and the catch answers [] for the whole listing
getTradableMarkets_yesToken(isArray, tokens, binaryOnly) ==
  IF binaryOnly /\ (~isArray \/ find(tokens, {"yes"}) = NoToken)
  THEN Selected(FALSE, FALSE, "")
  ELSE IF ~isArray \/ tokens = << >> THEN Selected(TRUE, FALSE, "")
  ELSE Selected(FALSE, TRUE, orElse(find(tokens, {"yes"}), first(tokens)).token_id)

\* scanMarkets: m.tokens?.find over ['yes', 'true'], or m.tokens?.[0];
\* `if (!yesToken) continue`
scanMarkets_yesToken(isArray, tokens) ==
  IF ~isArray THEN Selected(FALSE, FALSE, "")
  ELSE LET yesToken == orElse(find(tokens, {"yes", "true"}), first(tokens))
       IN  IF yesToken = NoToken THEN Selected(FALSE, FALSE, "")
           ELSE Selected(FALSE, TRUE, yesToken.token_id)

\* a listing function maps one tradable raw market with the given tokens
YesTokenCall(by, isArray, tokens, binaryOnly) ==
  /\ impl = "lib"
  /\ by \in Listers
  /\ ~isArray => tokens = << >>
  /\ by # "getTradableMarkets" => ~binaryOnly
  /\ calc' = [ fn |-> "selectYesToken", by |-> by, isArray |-> isArray,
               tokens |-> tokens,
               binaryOnly |-> binaryOnly,
               out |-> CASE by = "getTradableMarkets" ->
                              getTradableMarkets_yesToken(isArray, tokens, binaryOnly)
                         [] by = "scanMarkets" -> scanMarkets_yesToken(isArray, tokens)
                         [] by = "fetchLiveMarkets" ->
                              fetchLiveMarkets_yesToken(isArray, tokens) ]
  /\ UNCHANGED << impl, running, config, stats, activeTrades, loops >>

\* ---- order book fetch
\* the bids and asks arrays GET /book can carry: price in thousandths, size
\* in tokens
BidSides == { << >>, << [price |-> 398, size |-> 100] >>,
              << [price |-> 380, size |-> 100] >> }
AskSides == { << >>, << [price |-> 402, size |-> 100] >>,
              << [price |-> 420, size |-> 100], [price |-> 430, size |-> 50] >> }

\* { bids, asks, spread, midPrice } built from the two arrays:
\* midPrice = (bestBid + bestAsk) / 2, spread = (bestAsk - bestBid) / midPrice
Orderbook(bids, asks) ==
  [ absent |-> FALSE, bids |-> bids, asks |-> asks,
    midPrice |-> (bids[1].price + asks[1].price) \div 2,
    spread |-> ((asks[1].price - bids[1].price) * 2 * 1000)
                 \div (bids[1].price + asks[1].price) ]

\* the null returned instead of an Orderbook
NoOrderbook == [ absent |-> TRUE ]

\* ClobClient.getOrderbook: the token id is put in the URL as it is
getOrderbook(tokenId, response, bids, asks) ==
  IF response # "ok" THEN NoOrderbook
  ELSE IF Len(bids) = 0 \/ Len(asks) = 0 THEN NoOrderbook
  ELSE Orderbook(bids, asks)

\* fetchOrderbook of the trading engine service: `if (!tokenId) return null`
\* comes before the request
fetchOrderbook(tokenId, response, bids, asks) ==
  IF tokenId = "" THEN NoOrderbook
  ELSE IF response # "ok" THEN NoOrderbook
  ELSE IF Len(bids) = 0 \/ Len(asks) = 0 THEN NoOrderbook
  ELSE Orderbook(bids, asks)

BookFetchers == { "getOrderbook", "fetchOrderbook" }
TokenIds == { "", "tok1" }

\* one of the order book fetches is applied; the exchange answers the
\* request whatever token id the URL carries
OrderbookCall(by, tokenId, response, bids, asks) ==
  /\ impl = "lib"
  /\ by \in BookFetchers
  /\ calc' = [ fn |-> "getOrderbook", by |-> by, tokenId |-> tokenId,
               response |-> response, bids |-> bids, asks |-> asks,
               out |-> IF by = "getOrderbook"
                       THEN getOrderbook(tokenId, response, bids, asks)
                       ELSE fetchOrderbook(tokenId, response, bids, asks) ]
  /\ UNCHANGED << impl, running, config, stats, activeTrades, loops >>

\* ---- liquidity validation
\* a book with a spread of 0.05 and $82 of ask depth
Loose == [ absent |-> FALSE, bestBid |-> 390, bestAsk |-> 410,
           asks |-> << [price |-> 410, size |-> 200] >> ]
LiquidityBooks == Books \cup { Loose }
\* intended trade amounts, in cents
TradeSizes == { 100, 1000 }

\* validateLiquidity of the trading engine service, with its default
\* multiplier of 1.5: spread above 0.08 is rejected, then depth over the top
\* 5 ask levels must reach tradeSize * multiplier
validateLiquidity(book, tradeSize) ==
  /\ ~SpreadTooWide(book, 80)
  /\ availableDepth(book) * 1000 >= tradeSize * 1500

\* validateLiquidity of the scanner variant: spread above 0.05 is rejected,
\* depth must reach the target size and $50
validateLiquidity_014(book, targetSize) ==
  /\ ~SpreadTooWide(book, 50)
  /\ availableDepth(book) >= targetSize
  /\ availableDepth(book) >= 5000

\* the earlier validateLiquidity of the trading engine service ("Strict
\* Liquidity Validation"): spread above 0.02 is rejected, depth must reach
\* 3 times the target size and $500
validateLiquidity_strict(book, targetSize) ==
  /\ ~SpreadTooWide(book, 20)
  /\ availableDepth(book) >= targetSize * 3
  /\ availableDepth(book) >= 50000

\* the two checks of TradingCore.runLoop: book.spread > config.maxSpread
\* skips the candidate, and so does depth below size * minLiquidityMultiplier
runLoop_liquidity(book, size, cfg) ==
  ~SpreadTooWide(book, cfg.maxSpread) /\ ~DepthTooThin(book, size, cfg)

Validators ==
  { "validateLiquidity", "part_014.validateLiquidity", "strict validateLiquidity",
    "TradingCore.runLoop" }

\* one of the liquidity validators is applied under a run configuration
LiquidityCall(by, book, tradeSize, cfg) ==
  /\ impl = "lib"
  /\ by \in Validators
  /\ calc' = [ fn |-> "hasSufficientLiquidity", by |-> by, book |-> book,
               tradeSize |-> tradeSize, cfg |-> cfg,
               out |-> CASE by = "validateLiquidity" -> validateLiquidity(book, tradeSize)
                         [] by = "part_014.validateLiquidity" ->
                              validateLiquidity_014(book, tradeSize)
                         [] by = "strict validateLiquidity" ->
                              validateLiquidity_strict(book, tradeSize)
                         [] by = "TradingCore.runLoop" ->
                              runLoop_liquidity(book, tradeSize, cfg) ]
  /\ UNCHANGED << impl, running, config, stats, activeTrades, loops >>

\* ---- recording a trade
\* activeTrades after n earlier fills of the run, newest first
HeldTrades(n) == [ i \in 1..n |-> ExecutionEngine_execute("SIMULATION", 1000 + i) ]
\* how many trades a run may already have created
Held == 0..11

\* runLoop records one more fill on top of n held trades; getState() hands
\* out the resulting activeTrades
RecordTradeCall(n) ==
  /\ impl = "lib"
  /\ calc' = [ fn |-> "recordTrade", created |-> n + 1, held |-> HeldTrades(n),
               out |-> PushTrade(ExecutionEngine_execute("SIMULATION", 1000),
                                 HeldTrades(n)) ]
  /\ UNCHANGED << impl, running, config, stats, activeTrades, loops >>

\* ------------------------------------------------ log records of a candidate
\* What one candidate makes the loop emit, given what its awaits settled
\* with.  A record is {timestamp, level, message}; the message is kept as
\* the set of decisions it reports (empty for a progress message).
Record(level, about) == [ level |-> level, about |-> about ]

\* how the evaluation of the candidate ends in TradingCore.runLoop
runLoop_decision(book, threw, signal, balance, cfg) ==
  IF book = NoBook THEN "book"
  ELSE IF SpreadTooWide(book, cfg.maxSpread) THEN "spread"
  ELSE IF threw THEN "fault"
  ELSE IF signal = NoSignal THEN "signal"
  ELSE IF RiskManager_calculateEV(midPrice(book), signal.impliedProbability) < cfg.minEV
  THEN "ev"
  ELSE IF signal.confidence < cfg.minConfidence THEN "confidence"
  ELSE LET size == RiskManager_calculatePositionSize(midPrice(book),
                     signal.impliedProbability, balance, cfg)
       IN  IF size <= 0 THEN "size"
           ELSE IF DepthTooThin(book, size, cfg) THEN "liquidity"
           ELSE "fill"

\* this.log calls of TradingCore.runLoop for the candidate: the skips count
\* in simStats.blockedReasons and log nothing
runLoop_log(book, threw, signal, balance, cfg) ==
  LET d == runLoop_decision(book, threw, signal, balance, cfg)
  IN  IF d = "fill" THEN << Record("SUCCESS", {"fill"}) >>
      ELSE IF d = "fault" THEN << Record("ERROR", {"fault"}) >>
      ELSE << >>

\* how the candidate ends in scanMarkets and the backend runIteration,
\* executeOrder simulating the fill
runIteration_decision(book, threw, signal, balance, cfg) ==
  IF book = NoBook THEN "book"
  ELSE IF SpreadTooWide(book, cfg.maxSpread) THEN "spread"
  ELSE IF threw THEN "fault"
  ELSE IF signal = NoSignal THEN "signal"
  ELSE IF calculateEV(midPrice(book), signal.impliedProbability) < cfg.minEV
  THEN "ev"
  ELSE IF signal.confidence < cfg.minConfidence THEN "confidence"
  ELSE IF calculatePositionSize(balance, midPrice(book),
                                signal.impliedProbability, cfg) <= 0
  THEN "size"
  ELSE "fill"

\* log.* calls of scanMarkets, runIteration, executeOrder and loop's catch
\* for the candidate
runIteration_log(book, threw, signal, balance, cfg) ==
  LET d == runIteration_decision(book, threw, signal, balance, cfg)
      analyzing == << Record("INFO", {}) >>
      edge == analyzing \o << Record("SIGNAL", {}) >>
  IN  CASE d = "book"   -> << >>
        [] d = "spread" -> << Record("INFO", {"spread"}) >>
        [] d = "fault"  -> analyzing \o << Record("ERROR", {"fault"}) >>
        [] d = "signal" -> analyzing
        [] d \in {"ev", "confidence"} ->
             edge \o << Record("INFO", {"ev", "confidence"}) >>
        [] d = "size"   -> edge \o << Record("INFO", {"size"}) >>
        [] OTHER        -> edge \o << Record("SUCCESS", {"fill"}) >>

Loggers == { "runLoop", "runIteration" }
\* balances the candidate is sized with: $100 and the funded wallet
SizingBalances == { 10000, Funded.usdc }

\* one candidate evaluated on its own, in simulation mode
CandidateLogCall(by, book, threw, signal, balance) ==
  /\ impl = "lib"
  /\ LET cfg == PresetSafe("SIMULATION")
     IN  calc' = [ fn |-> "evaluateCandidate", by |-> by, book |-> book,
                   threw |-> threw, signal |-> signal, balance |-> balance,
                   decision |-> IF by = "runLoop"
                                THEN runLoop_decision(book, threw, signal, balance, cfg)
                                ELSE runIteration_decision(book, threw, signal,
                                                           balance, cfg),
                   out |-> IF by = "runLoop"
                           THEN runLoop_log(book, threw, signal, balance, cfg)
                           ELSE runIteration_log(book, threw, signal, balance, cfg) ]
  /\ UNCHANGED << impl, running, config, stats, activeTrades, loops >>

LibNext ==
  \/ \E by \in Listers, ia \in BOOLEAN, ts \in TokenLists, bo \in BOOLEAN :
       YesTokenCall(by, ia, ts, bo)
  \/ \E by \in Loggers, b \in LiquidityBooks \cup {NoBook}, t \in BOOLEAN,
        sg \in Signals \cup {NoSignal}, bal \in SizingBalances :
       CandidateLogCall(by, b, t, sg, bal)
  \/ \E n \in Held : RecordTradeCall(n)
  \/ \E by \in Validators, b \in LiquidityBooks, sz \in TradeSizes, cfg \in Configs :
       LiquidityCall(by, b, sz, cfg)
  \/ \E by \in BookFetchers, t \in TokenIds, r \in Responses, bids \in BidSides,
        asks \in AskSides : OrderbookCall(by, t, r, bids, asks)
  \/ \E by \in Listers, r \in Responses, m \in RawMarkets, bo \in BOOLEAN,
        hb \in BOOLEAN : ListMarketsCall(by, r, m, bo, hb)
  \/ \E by \in Estimators : EstimateCall(by)
  \/ \E a \in Answers : ServiceAnswers(a)
  \/ DelayElapsed
  \/ \E by \in Sizers, pr \in Prices, pb \in Probs, b \in Balances, cfg \in Configs :
       PositionSizeCall(by, pr, pb, b, cfg)
  \/ \E by \in Evaluators, pr \in Prices, pb \in Probs :
       ExpectedValueCall(by, pr, pb)

LibSpec == LibInit /\ [][LibNext]_vars

\* ------------------------------------------------ App.tsx (browser loop)
\* The React component that runs the loop itself.  running is the isRunning
\* state, stats the stats state, loops the bag of runIteration closures that
\* are suspended or waiting in a timer, and calc holds currentStep with the
\* values setCurrentStep was given during the last run of code that set it
\* (trail, starting with the step before).
\*
\* A closure is runIteration as useCallback built it for one render: it
\* reads the isRunning and stats of that render.  Fields:
\*   pc         "timer", or the await it is suspended at
\*   handle     botTimeoutRef.current names this pending timer
\*   isRunning  isRunning of the render that built the closure
\*   seen       stats of the render that built the closure
\*   left       candidates not yet begun
\*   traded     tradeExecuted
AppIdle ==
  [ pc |-> "free", handle |-> FALSE, isRunning |-> FALSE, seen |-> INITIAL_STATS,
    left |-> 0, traded |-> FALSE ]

\* currentPrice of every market fetchLiveMarkets returns: 0.5, in thousandths
currentPrice == 500

\* share of the balance the user allocates, in percent
AllocationPercents == { 5 }
\* signals offered to the browser loop
AppSignals == { Edge, NoEdge }

\* a wallet is connected and holds $100; nothing runs
AppInit ==
  /\ impl = "app"
  /\ running = FALSE
  /\ config = NoConfig
  /\ stats = [ INITIAL_STATS EXCEPT !.usdcBalance = 10000 ]
  /\ activeTrades = << >>
  /\ loops = EmptyBag
  /\ calc = [ fn |-> "App", currentStep |-> "IDLE", trail |-> << "IDLE" >> ]

\* setCurrentStep called with each of steps in turn
StepTo(steps) ==
  [ fn |-> "App", currentStep |-> steps[Len(steps)],
    trail |-> << calc.currentStep >> \o steps ]

\* clearTimeout(botTimeoutRef.current) on bag b
AppClear(b) ==
  LET hs == { h \in BagToSet(b) : h.handle }
  IN  IF hs = {} THEN b ELSE b (-) SetToBag(hs)

\* the effect on [isRunning, runIteration] after a render with new isRunning
\* or new stats: the cleanup clears the timer the ref names, then a timer of
\* one second is set for the new closure if the bot is running
AppEffect(b, isRunning, st) ==
  IF isRunning
  THEN AppClear(b) (+) SetToBag({[ AppIdle EXCEPT !.pc = "timer", !.handle = TRUE,
                                                  !.isRunning = TRUE, !.seen = st ]})
  ELSE AppClear(b)

\* botTimeoutRef.current = window.setTimeout(runIteration, ...) inside
\* closure l: the same closure runs again
AppSchedule(b, l) ==
  Unmark(b) (+) SetToBag({[ AppIdle EXCEPT !.pc = "timer", !.handle = TRUE,
                                           !.isRunning = l.isRunning,
                                           !.seen = l.seen ]})

\* top of `for (const targetMarket of candidates)`: the next closure state
\* (Idle: the loop is left) and the step set on the way
AppForTop(l) ==
  IF l.traded \/ l.left = 0
  THEN [ next |-> AppIdle, steps |-> << "MONITORING" >> ]
  ELSE [ next |-> [ l EXCEPT !.pc = "signal", !.left = @ - 1 ],
         steps |-> << "ANALYZING" >> ]

\* the bag after closure l went through AppForTop from bag b
AppContinue(b, l) ==
  LET t == AppForTop(l)
  IN  IF t.next = AppIdle THEN AppSchedule(b, l) ELSE b (+) SetToBag({t.next})

\* startBot(): allocation from the balance, isRunning set; the button shows
\* it only while the bot is not running
AppStartBot(pct) ==
  /\ impl = "app"
  /\ ~running
  /\ BagCardinality(loops) < MaxLoops
  /\ stats' = [ stats EXCEPT !.allocatedCapital = (stats.usdcBalance * pct) \div 100,
                             !.cumulativeSpent = 0 ]
  /\ running' = TRUE
  /\ loops' = AppEffect(loops, TRUE, stats')
  /\ UNCHANGED << impl, config, activeTrades, calc >>

\* stopBot('USER')
AppStopBot ==
  /\ impl = "app"
  /\ running
  /\ running' = FALSE
  /\ calc' = StepTo(<< "IDLE" >>)
  /\ loops' = AppClear(loops)
  /\ UNCHANGED << impl, config, stats, activeTrades >>

\* a timer fires: runIteration up to `await fetchLiveMarkets()`, with the
\* budget gate calling stopBot('BUDGET')
AppTimerFire(l) ==
  /\ impl = "app"
  /\ l.pc = "timer"
  /\ LET rest == loops (-) SetToBag({l})
     IN  IF ~l.isRunning
         THEN /\ loops' = rest
              /\ UNCHANGED << running, calc >>
         ELSE IF l.seen.allocatedCapital - l.seen.cumulativeSpent <= BudgetEpsilon
         THEN /\ running' = FALSE
              /\ calc' = StepTo(<< "EXHAUSTED" >>)
              /\ loops' = AppClear(rest)
         ELSE /\ calc' = StepTo(<< "SCANNING" >>)
              /\ loops' = rest (+) SetToBag({[ l EXCEPT !.pc = "markets",
                                                       !.handle = FALSE ]})
              /\ UNCHANGED running
  /\ UNCHANGED << impl, config, stats, activeTrades >>

\* await fetchLiveMarkets settles with n markets; the top 3 are candidates
AppMarketsReturn(l, n) ==
  /\ impl = "app"
  /\ l.pc = "markets"
  /\ LET rest == loops (-) SetToBag({l})
         l2 == [ l EXCEPT !.left = Min(n, 3), !.traded = FALSE ]
     IN  IF n = 0
         THEN /\ loops' = AppSchedule(rest, l)
              /\ UNCHANGED calc
         ELSE /\ loops' = AppContinue(rest, l2)
              /\ calc' = StepTo(AppForTop(l2).steps)
  /\ UNCHANGED << impl, running, config, stats, activeTrades >>

\* await generateMarketSignal settles: risk check, and with edge the trade,
\* the end of the loop and the timer, all without another await; the render
\* that follows setStats runs the effect
AppSignalReturn(l, signal) ==
  /\ impl = "app"
  /\ l.pc = "signal"
  /\ LET rest == loops (-) SetToBag({l})
         ev == calculateEV(currentPrice, signal.impliedProbability)
         kelly == calculateKellySize(currentPrice, signal.impliedProbability,
                                     l.seen.usdcBalance)
         size == IF l.seen.cumulativeSpent + kelly > l.seen.allocatedCapital
                 THEN l.seen.allocatedCapital - l.seen.cumulativeSpent
                 ELSE kelly
     IN  IF ev > 0 /\ signal.confidence >= RISK_LIMITS.minConfidence
         THEN IF size >= 50
              THEN /\ MayFill
                   /\ activeTrades' =
                        PushTrade(ExecutionEngine_execute("LIVE", size), activeTrades)
                   /\ stats' = [ stats EXCEPT !.cumulativeSpent = @ + size,
                                              !.usdcBalance = @ - size,
                                              !.totalTrades = @ + 1 ]
                   /\ calc' = StepTo(<< "RISK_CHECK", "EXECUTING", "MONITORING" >>)
                   /\ loops' = AppEffect(AppSchedule(rest, l), running, stats')
              ELSE /\ calc' = StepTo(<< "RISK_CHECK" >> \o AppForTop(l).steps)
                   /\ loops' = AppContinue(rest, l)
                   /\ UNCHANGED << stats, activeTrades >>
         ELSE /\ calc' = StepTo(<< "RISK_CHECK" >>)
              /\ loops' = rest (+) SetToBag({[ l EXCEPT !.pc = "pause" ]})
              /\ UNCHANGED << stats, activeTrades >>
  /\ UNCHANGED << impl, running, config >>

\* the 500 ms pause after a candidate without edge is over
AppPauseReturn(l) ==
  /\ impl = "app"
  /\ l.pc = "pause"
  /\ loops' = AppContinue(loops (-) SetToBag({l}), l)
  /\ calc' = StepTo(AppForTop(l).steps)
  /\ UNCHANGED << impl, running, config, stats, activeTrades >>

\* generateMarketSignal rejects: catch logs and sets the backoff timer
AppFault(l) ==
  /\ impl = "app"
  /\ l.pc = "signal"
  /\ loops' = AppSchedule(loops (-) SetToBag({l}), l)
  /\ UNCHANGED << impl, running, config, stats, activeTrades, calc >>

AppNext ==
  \/ \E pct \in AllocationPercents : AppStartBot(pct)
  \/ AppStopBot
  \/ \E l \in Chains : AppTimerFire(l)
  \/ \E l \in Chains, n \in 0..2 : AppMarketsReturn(l, n)
  \/ \E l \in Chains, s \in AppSignals : AppSignalReturn(l, s)
  \/ \E l \in Chains : AppPauseReturn(l)
  \/ \E l \in Chains : AppFault(l)

AppSpec == AppInit /\ [][AppNext]_vars

\* ------------------------------------- App.tsx (loop with execution lock)
\* The component whose runIteration takes isExecutingRef.  running is the
\* isRunning state, loops the bag of runIteration closures, and calc holds
\* currentStep and isExecutingRef.current.  Closure fields as in AppIdle,
\* and book: the order book of the candidate being analysed.
KernelIdle ==
  [ pc |-> "free", handle |-> FALSE, isRunning |-> FALSE, seen |-> INITIAL_STATS,
    left |-> 0, traded |-> FALSE, book |-> NoBook ]

\* what fetchBalances resolves to: a wallet, or null after a provider error
Connected == [ absent |-> FALSE, usdc |-> 10000, pol |-> 100 ]
Dry       == [ absent |-> FALSE, usdc |-> 10000, pol |-> 0 ]
NoWallet  == [ absent |-> TRUE ]
KernelWallets == { Connected, Dry, NoWallet }

\* the size validateLiquidity is asked about: $5, in cents
probeSize == 500
\* smallest trade the loop places: $1, in cents
minTrade == 100

\* a wallet holding $100 is connected; nothing runs
KernelInit ==
  /\ impl = "kernel"
  /\ running = FALSE
  /\ config = NoConfig
  /\ stats = [ INITIAL_STATS EXCEPT !.usdcBalance = 10000 ]
  /\ activeTrades = << >>
  /\ loops = EmptyBag
  /\ calc = [ fn |-> "Kernel", currentStep |-> "IDLE", isExecuting |-> FALSE ]

\* the guard of runIteration and the lock taken behind it: the closure as it
\* is suspended at `await fetchBalances`, or KernelIdle when the guard returns
KernelEnter(l) ==
  IF ~l.isRunning \/ calc.isExecuting THEN KernelIdle
  ELSE [ l EXCEPT !.pc = "balances", !.handle = FALSE ]

\* a finally block that leaves the lock as it is
KernelFinally_KeepLock(b, l) ==
  [ lock |-> calc.isExecuting,
    loops |-> IF l.isRunning
              THEN Unmark(b) (+) SetToBag({[ KernelIdle EXCEPT
                     !.pc = "timer", !.handle = TRUE,
                     !.isRunning = l.isRunning, !.seen = l.seen ]})
              ELSE b ]

\* the finally block of runIteration in closure l, from bag b: the lock is
\* released, and the closure is scheduled again if its isRunning is set
\* (the step is set to MONITORING by the caller)
KernelFinally(b, l) ==
  [ lock |-> FALSE,
    loops |-> IF l.isRunning
              THEN Unmark(b) (+) SetToBag({[ KernelIdle EXCEPT
                     !.pc = "timer", !.handle = TRUE,
                     !.isRunning = l.isRunning, !.seen = l.seen ]})
              ELSE b ]

\* top of `for (const m of candidates)`: the closure at its next await, or
\* KernelIdle when the loop is left
KernelForTop(l) ==
  IF l.traded \/ ~l.isRunning \/ l.left = 0 THEN KernelIdle
  ELSE [ l EXCEPT !.pc = "book", !.left = @ - 1 ]

\* closure l, taken out of the bag (rest), goes to the top of the candidate
\* loop with current step `step`
KernelLoop(rest, l, step) ==
  LET t == KernelForTop(l)
  IN  IF t = KernelIdle
      THEN /\ loops' = KernelFinally(rest, l).loops
           /\ calc' = [ calc EXCEPT !.currentStep = "MONITORING",
                                    !.isExecuting = KernelFinally(rest, l).lock ]
      ELSE /\ loops' = rest (+) SetToBag({t})
           /\ calc' = [ calc EXCEPT !.currentStep = step ]

\* startBot(), then the effect on [isRunning]: the cleanup clears the timer
\* the ref names and runIteration of the new render is called
KernelStartBot(pct) ==
  /\ impl = "kernel"
  /\ ~running
  /\ stats.usdcBalance > 0
  /\ stats' = [ stats EXCEPT !.allocatedCapital = (stats.usdcBalance * pct) \div 100,
                             !.cumulativeSpent = 0 ]
  /\ running' = TRUE
  /\ LET l == KernelEnter([ KernelIdle EXCEPT !.isRunning = TRUE, !.seen = stats' ])
     IN  IF l = KernelIdle
         THEN /\ loops' = AppClear(loops)
              /\ UNCHANGED calc
         ELSE /\ loops' = AppClear(loops) (+) SetToBag({l})
              /\ calc' = [ calc EXCEPT !.isExecuting = TRUE ]
  /\ UNCHANGED << impl, config, activeTrades >>

\* the button while running: setIsRunning(false), then the effect clears
\* the timer and sets IDLE
KernelStop ==
  /\ impl = "kernel"
  /\ running
  /\ running' = FALSE
  /\ loops' = AppClear(loops)
  /\ calc' = [ calc EXCEPT !.currentStep = "IDLE" ]
  /\ UNCHANGED << impl, config, stats, activeTrades >>

\* a timer fires: runIteration up to `await fetchBalances`
KernelTimerFire(l) ==
  /\ impl = "kernel"
  /\ l.pc = "timer"
  /\ LET l2 == KernelEnter(l)
     IN  IF l2 = KernelIdle
         THEN /\ loops' = loops (-) SetToBag({l})
              /\ UNCHANGED calc
         ELSE /\ loops' = (loops (-) SetToBag({l})) (+) SetToBag({l2})
              /\ calc' = [ calc EXCEPT !.isExecuting = TRUE ]
  /\ UNCHANGED << impl, running, config, stats, activeTrades >>

\* await fetchBalances settles with w (pol in tenths, the floor is 0.05).
\* The safety check returns inside the
\* try: setIsRunning(false), then finally, then the effect of the render
\* that follows if isRunning changed
KernelBalancesReturn(l, w) ==
  /\ impl = "kernel"
  /\ l.pc = "balances"
  /\ LET rest == loops (-) SetToBag({l})
         fin == KernelFinally(rest, l)
     IN  IF w.absent \/ w.pol * 100 < 50
         THEN /\ running' = FALSE
              /\ stats' = IF w.absent THEN stats
                          ELSE [ stats EXCEPT !.usdcBalance = w.usdc ]
              /\ loops' = IF running THEN AppClear(fin.loops) ELSE fin.loops
              /\ calc' = [ calc EXCEPT
                             !.currentStep = IF running THEN "IDLE" ELSE "MONITORING",
                             !.isExecuting = fin.lock ]
         ELSE /\ stats' = [ stats EXCEPT !.usdcBalance = w.usdc ]
              /\ loops' = rest (+) SetToBag({[ l EXCEPT !.pc = "markets" ]})
              /\ calc' = [ calc EXCEPT !.currentStep = "SCANNING" ]
              /\ UNCHANGED running
  /\ UNCHANGED << impl, config, activeTrades >>

\* await fetchLiveMarkets settles with n markets; the top 5 are candidates
KernelMarketsReturn(l, n) ==
  /\ impl = "kernel"
  /\ l.pc = "markets"
  /\ KernelLoop(loops (-) SetToBag({l}),
                [ l EXCEPT !.left = Min(n, 5), !.traded = FALSE ], calc.currentStep)
  /\ UNCHANGED << impl, running, config, stats, activeTrades >>

\* await fetchOrderbook settles: an absent or illiquid book is skipped
KernelBookReturn(l, book) ==
  /\ impl = "kernel"
  /\ l.pc = "book"
  /\ IF book.absent \/ ~validateLiquidity(book, probeSize)
     THEN KernelLoop(loops (-) SetToBag({l}), l, calc.currentStep)
     ELSE /\ loops' = (loops (-) SetToBag({l}))
                        (+) SetToBag({[ l EXCEPT !.pc = "signal", !.book = book ]})
          /\ calc' = [ calc EXCEPT !.currentStep = "ANALYZING" ]
  /\ UNCHANGED << impl, running, config, stats, activeTrades >>

\* await generateMarketSignal settles: risk check and the trade, up to the
\* pause that ends the candidate
KernelSignalReturn(l, signal) ==
  /\ impl = "kernel"
  /\ l.pc = "signal"
  /\ LET price == midPrice(l.book)
         ev == calculateEV(price, signal.impliedProbability)
         size == calculateKellySize(price, signal.impliedProbability,
                                    l.seen.usdcBalance)
         fill == ev > 0 /\ signal.confidence >= RISK_LIMITS.minConfidence
                   /\ size >= minTrade
     IN  /\ fill => MayFill
         /\ activeTrades' =
              IF fill THEN PushTrade(ExecutionEngine_execute("LIVE", size), activeTrades)
              ELSE activeTrades
         /\ stats' =
              IF fill THEN [ stats EXCEPT !.cumulativeSpent = @ + size,
                                          !.usdcBalance = @ - size,
                                          !.totalTrades = @ + 1 ]
              ELSE stats
         /\ calc' = [ calc EXCEPT !.currentStep =
                                    IF fill THEN "EXECUTING" ELSE "RISK_CHECK" ]
         /\ loops' = (loops (-) SetToBag({l}))
                       (+) SetToBag({[ l EXCEPT !.pc = "pause", !.traded = fill ]})
  /\ UNCHANGED << impl, running, config >>

\* generateMarketSignal rejects: the inner catch swallows it
KernelSignalFault(l) ==
  /\ impl = "kernel"
  /\ l.pc = "signal"
  /\ loops' = (loops (-) SetToBag({l})) (+) SetToBag({[ l EXCEPT !.pc = "pause" ]})
  /\ UNCHANGED << impl, running, config, stats, activeTrades, calc >>

\* the 500 ms pause after a candidate is over
KernelPauseReturn(l) ==
  /\ impl = "kernel"
  /\ l.pc = "pause"
  /\ KernelLoop(loops (-) SetToBag({l}), l, calc.currentStep)
  /\ UNCHANGED << impl, running, config, stats, activeTrades >>

KernelNext ==
  \/ \E pct \in AllocationPercents : KernelStartBot(pct)
  \/ KernelStop
  \/ \E l \in Chains : KernelTimerFire(l)
  \/ \E l \in Chains, w \in KernelWallets : KernelBalancesReturn(l, w)
  \/ \E l \in Chains, n \in 0..2 : KernelMarketsReturn(l, n)
  \/ \E l \in Chains, b \in Books \cup {NoBook} : KernelBookReturn(l, b)
  \/ \E l \in Chains, s \in AppSignals : KernelSignalReturn(l, s)
  \/ \E l \in Chains : KernelSignalFault(l)
  \/ \E l \in Chains : KernelPauseReturn(l)

KernelSpec == KernelInit /\ [][KernelNext]_vars

\* ------------------------------------------------ sizing, alone and in a run
\* the kernels of Spec together with the library functions applied on their
\* own: a behaviour is a run of one kernel or a series of library calls
SizingInit == Init \/ LibInit
SizingNext == (impl # "lib" /\ Next) \/ (impl = "lib" /\ LibNext)
SizingSpec == SizingInit /\ [][SizingNext]_vars

\* timers fire once their delay has elapsed: every pending timer is
\* eventually handed to the event loop
TimerRecords ==
  { [ Idle EXCEPT !.pc = "timer", !.handle = h, !.address = a, !.faulted = f,
                  !.delay = scanInterval(cfg) ] :
      h \in BOOLEAN, a \in BOOLEAN, f \in BOOLEAN, cfg \in Configs }

FairSpec ==
  Spec /\ \A r \in TimerRecords :
            WF_vars(r \in Chains /\ (CoreTimerFire(r) \/ TimerFire(r)))

\* ------------------------------------------------------------------ claims
\* chain l ran one step and is now suspended as l2 (Idle: it ended)
ChainStep(l, l2) ==
  /\ l \in Chains
  /\ l2 \in BagToSet(loops') \cup {Idle}
  /\ l2 # l
  /\ loops' = Moved(l, l2)

\* a timer fires while the run is on: an iteration begins
IterationStart == \E l \in Chains : running /\ (CoreTimerFire(l) \/ TimerFire(l))

\* C1: in any single iteration of the loop at most one Trade is created: a
\* step that records a trade is never taken by an iteration that has
\* already had a trade filled.
C1_OneTradePerIteration ==
  [][ \A l \in Chains :
        ( /\ InFlight(l)
          /\ stats'.totalTrades = stats.totalTrades + 1
          /\ \E l2 \in BagToSet(loops') \cup {Idle} : ChainStep(l, l2) )
        => l.trade # "filled" ]_vars

\* C2: cumulativeSpent <= allocatedCapital + epsilon at the start of every
\* iteration that goes on to scan (TradingCore, where the allocation is set).
C2_SpentWithinAllocation ==
  [][ (impl = "core" /\ IterationStart)
        => stats.cumulativeSpent <= stats.allocatedCapital + BudgetEpsilon ]_vars

\* C3: the budget gate runs at the top of every iteration: no iteration
\* begins (and scans) while allocatedCapital - cumulativeSpent <= epsilon.
C3_BudgetGate ==
  [][ (impl = "core" /\ IterationStart)
        => stats.allocatedCapital - stats.cumulativeSpent > BudgetEpsilon ]_vars

\* C4: under every interleaving of start, stop, timers and await
\* completions at most one iteration is in flight and at most one timer is
\* pending.
C4_SingleLoop == InFlightCount <= 1 /\ TimerCount <= 1

\* C5: after a manual stop no timer remains pending until start is invoked
\* again.
C5_NoTimerWhileStopped == ~running => TimerCount = 0

\* C6: once stop was requested, a continuation of the in-flight iteration
\* makes no further Estimator call, no order execution and no RunState
\* mutation.
C6_StopObserved ==
  [][ \A l \in Chains : \A l2 \in BagToSet(loops') \cup {Idle} :
        (~running /\ InFlight(l) /\ ChainStep(l, l2))
        => /\ l2.pc \notin {"signal", "verify", "submit"}
           /\ stats' = stats
           /\ activeTrades' = activeTrades ]_vars

\* C7: an error thrown inside an iteration is caught at the loop boundary
\* and the run stays alive: unless the run is stopped, the next iteration
\* is eventually scheduled and started.
C7_FaultThenNextIteration ==
  (\E l \in Chains : l.faulted /\ ~InFlight(l))
    ~> (~running \/ \E l \in Chains : l.faulted /\ InFlight(l))

\* C7 witness: after a caught fault the next iteration of a running bot
\* has started.
C7_Witness == running /\ \E l \in Chains : l.faulted /\ InFlight(l)

\* C8: in live mode a settlement verification failure stops the run: the
\* step in which verification fails leaves the run stopped and the loop
\* ended.
C8_SettlementFaultStopsRun ==
  [][ \A l \in Chains : \A w \in Wallets :
        (l.pc = "verify" /\ ~canSettle(w, l.size) /\ VerifyReturn(l, w))
        => (~running' /\ loops' = loops (-) SetToBag({l})) ]_vars

\* C9: in live mode no live Trade is returned unless settlement was
\* verified first: a step that records a live trade is the answer to an
\* order submitted after verifySettlementCapability succeeded.
C9_LiveTradeOnlyAfterVerify ==
  [][ ( /\ stats'.totalTrades = stats.totalTrades + 1
        /\ activeTrades' # << >>
        /\ ~Head(activeTrades').isSimulated )
      => \E l \in Chains : l.pc = "submit" /\ SubmitReturn(l, TRUE) ]_vars

\* the execution gateway returned absent to chain l: the exchange rejected
\* the order or the submit failed
ReturnedAbsent(l) == l.pc = "submit" /\ SubmitReturn(l, FALSE)

\* C10: when the execution gateway returns absent no Trade is recorded,
\* RunState is unchanged, and the iteration goes on with the next candidate
\* (its Estimator call) when one is left.
C10_AbsentLeavesRunState ==
  [][ \A l \in Chains :
        ReturnedAbsent(l)
        => /\ stats' = stats
           /\ activeTrades' = activeTrades
           /\ running' = running
           /\ SkipWide(l.cands, config.maxSpread) # << >>
                => \E l2 \in BagToSet(loops') :
                     /\ l2.pc = "signal"
                     /\ l2.trade = "absent"
                     /\ l2.cands = Tail(SkipWide(l.cands, config.maxSpread))
                     /\ ChainStep(l, l2) ]_vars

\* C10 witness: the exchange rejected a chain's order; the chain is
\* evaluating the next candidate, with nothing recorded.
C10_Witness ==
  /\ impl = "backend"
  /\ running
  /\ stats.totalTrades = 0
  /\ \E l \in Chains : l.pc = "signal" /\ l.trade = "absent"

\* the step of chain l hands a candidate to the execution gateway: a trade
\* is recorded at once or the live order starts with settlement verification
CallsGateway(l) ==
  /\ l.pc = "signal"
  /\ \/ stats'.totalTrades = stats.totalTrades + 1
     \/ \E l2 \in BagToSet(loops') : l2.pc = "verify" /\ ChainStep(l, l2)

\* C11: every Trade created by the decision loop was for a candidate that
\* passed the risk check in that iteration: EV >= minEV, confidence >=
\* minConfidence and position size > 0 (a live order is filled only with
\* the positive size it was submitted with).
C11_TradePassedRiskCheck ==
  [][ \A l \in Chains :
        /\ \A s \in Signals \cup {NoSignal} :
             ((CoreSignalReturn(l, s) \/ SignalReturn(l, s)) /\ CallsGateway(l))
             => /\ s # NoSignal
                /\ calculateEV(midPrice(l.book), s.impliedProbability) >= config.minEV
                /\ s.confidence >= config.minConfidence
                /\ activeTrades' = activeTrades \/ Head(activeTrades').size > 0
        /\ SubmitReturn(l, TRUE) => l.size > 0 ]_vars

\* C12: the execution gateway is never called for a candidate unless the
\* liquidity validator accepted its order book for the computed size in
\* the same iteration: spread <= maxSpread and top-of-book ask depth >=
\* size * minLiquidityMultiplier.
C12_GatewayAfterLiquidityCheck ==
  [][ \A l \in Chains : \A l2 \in BagToSet(loops') \cup {Idle} :
        (CallsGateway(l) /\ ChainStep(l, l2))
        => LET size == IF l2.pc = "verify" THEN l2.size
                       ELSE Head(activeTrades').size
           IN  /\ ~SpreadTooWide(l.book, config.maxSpread)
               /\ ~DepthTooThin(l.book, size, config) ]_vars

\* C13: positionSize returns exactly 0 whenever the Kelly fraction is <= 0
\* or the capped size is below minTradeSize; its result is never negative
\* and never exceeds maxTradeSize.
C13_PositionSizeBounds ==
  calc.fn = "positionSize"
  => /\ (calc.marketPrice > 0 /\ calc.marketPrice < 1000
          /\ calc.estimatedProb <= calc.marketPrice) => calc.out = 0
     /\ calc.out >= 0
     /\ calc.out <= calc.cfg.maxTradeSize
     /\ calc.out = 0 \/ calc.out >= calc.cfg.minTradeSize

\* C14: for every price in (0,1) and prob in [0,1] expectedValue equals
\* prob*(1-price) - (1-prob)*price, which is prob - price (so -price at
\* prob 0, 1-price at prob 1, increasing in prob); for price <= 0 or
\* price >= 1 it is 0.  This holds for every EV implementation of the loop.
C14_ExpectedValueFormula ==
  calc.fn = "expectedValue"
  => calc.out = IF calc.marketPrice <= 0 \/ calc.marketPrice >= 1000 THEN 0
                ELSE calc.estimatedProb - calc.marketPrice

\* C15: when the reasoning service answers with a rate-limit error,
\* estimateSignal retries with exponential backoff: the wait before retry
\* number i is 3000 ms doubled i - 1 times, and after the answer to the
\* third attempt the call terminates.
C15_RateLimitBackoff ==
  [][ (calc.fn = "estimateSignal" /\ calc.pc = "request" /\ ServiceAnswers("rateLimit"))
      => IF calc.i < maxRetries - 1
         THEN /\ calc'.pc = "delay"
              /\ calc'.waits = Append(calc.waits,
                                      IF calc.i = 0 THEN initialDelay
                                      ELSE 2 * calc.waits[Len(calc.waits)])
         ELSE calc'.pc = "done" ]_vars

\* C16: estimateSignal returns absent whenever the provider response does
\* not contain the probability field: it never returns a Signal with a
\* substituted default probability.
C16_NoDefaultProbability ==
  (calc.fn = "estimateSignal" /\ calc.pc = "done" /\ calc.answer = "noProbability")
  => calc.out = Absent

\* C17: every config value an iteration reads equals the snapshot taken
\* when its run started: the config does not change under an iteration
\* that is in flight.
C17_ConfigSnapshot ==
  [][ (\E l \in Chains : InFlight(l) /\ l \in BagToSet(loops'))
      => config' = config ]_vars

\* the run-start validation of the specification: sizes ordered, a Kelly
\* multiplier in (0, 1], a liquidity multiplier of at least 1.0
ValidConfig(cfg) ==
  /\ cfg.minTradeSize <= cfg.maxTradeSize
  /\ cfg.kellyMultiplier > 0 /\ cfg.kellyMultiplier <= 1000
  /\ cfg.minLiquidityMultiplier >= 1000

\* C18: a start with an invalid configuration is rejected before the first
\* iteration: the loop is never running, and no iteration is in flight or
\* pending, under an invalid configuration.
C18_InvalidConfigRejected ==
  (running \/ loops # EmptyBag) => (config # NoConfig /\ ValidConfig(config))

\* C19: listTradableMarkets returns a raw market iff it is not closed, not
\* archived, accepting orders and order-book enabled, and, when binaryOnly
\* is set, has an explicit yes-labelled token.
C19_TradableIff ==
  (calc.fn = "listTradableMarkets" /\ calc.response = "ok")
    => (calc.out.returned <=>
          (/\ isTradable(calc.raw)
           /\ calc.binaryOnly => calc.raw.tokens = "yes"))

FailedListingReschedules ==
  [][ \A l \in Chains : \A r \in Responses \ {"ok"} :
        (l.pc = "markets" /\ (CoreMarketsReturn(l, r) \/ MarketsReturn(l, r)))
        => /\ stats' = stats /\ activeTrades' = activeTrades
           /\ \E l2 \in BagToSet(loops') \cup {Idle} :
                /\ ChainStep(l, l2)
                /\ ~l2.faulted
                /\ l2.pc = IF running THEN "timer" ELSE "free" ]_vars

\* C21: getOrderbook returns absent when the token id is empty, when the
\* HTTP call fails, or when either side of the book has zero levels; every
\* Orderbook it returns has bids and asks.
C21_OrderbookAbsent ==
  calc.fn = "getOrderbook"
    => /\ (calc.tokenId = "" \/ calc.response # "ok"
             \/ calc.bids = << >> \/ calc.asks = << >>) => calc.out = NoOrderbook
       /\ calc.out # NoOrderbook
            => (calc.out.bids # << >> /\ calc.out.asks # << >>)

\* C22: hasSufficientLiquidity returns false for every book whose spread
\* exceeds the run's config.maxSpread, for any depth and any trade size.
C22_WideSpreadRejected ==
  (calc.fn = "hasSufficientLiquidity" /\ SpreadTooWide(calc.book, calc.cfg.maxSpread))
    => ~calc.out

\* C23: RunState follows the trades created: the step that records a trade
\* adds exactly its size to cumulativeSpent, subtracts exactly its size
\* from the balance and adds 1 to totalTrades, and nothing else changes
\* totalTrades.
C23_RunStateFollowsTrades ==
  [][ /\ (activeTrades' # activeTrades /\ activeTrades' # << >>)
           => stats'.totalTrades = stats.totalTrades + 1
      /\ stats'.totalTrades # stats.totalTrades
           => /\ stats'.totalTrades = stats.totalTrades + 1
              /\ activeTrades' # << >>
              /\ stats'.cumulativeSpent
                   = stats.cumulativeSpent + Head(activeTrades').size
              /\ stats'.usdcBalance
                   = stats.usdcBalance - Head(activeTrades').size ]_vars

\* C24: every Trade created during a run stays held and is visible through
\* getState(): after a fill is recorded the trades list holds all trades
\* created since start, the new one and every earlier one.
C24_AllTradesHeld ==
  calc.fn = "recordTrade"
    => /\ Len(calc.out) = calc.created
       /\ \A i \in 1..Len(calc.held) : \E j \in 1..Len(calc.out) :
            calc.out[j] = calc.held[i]

\* C25: after an iteration-level fault the next iteration is scheduled
\* after a backoff interval strictly longer than the normal scan interval:
\* the timer set by an iteration whose catch block ran has a longer delay.
C25_FaultBackoff ==
  \A l \in Chains :
    (l.pc = "timer" /\ l.faulted) => l.delay > scanInterval(config)

\* C26: a failure of the reasoning-service request that is not a rate-limit
\* response propagates to the caller of estimateSignal immediately: the
\* call is over once the failing attempt settles, its outcome is the
\* error, and no delay was waited for that attempt.
C26_ErrorPropagatesAtOnce ==
  (calc.fn = "estimateSignal" /\ calc.answer = "error")
    => /\ calc.pc = "done"
       /\ calc.out = Thrown
       /\ Len(calc.waits) = calc.i

\* C27: when every allowed attempt of a reasoning-service request hits the
\* rate limit, the error propagates out of estimateSignal: a call that ended
\* on a rate-limit answer ended by throwing, after maxRetries attempts, and
\* not with an absent signal.
C27_ExhaustedRetriesThrow ==
  (calc.fn = "estimateSignal" /\ calc.pc = "done" /\ calc.answer = "rateLimit")
    => (calc.out = Thrown /\ calc.i = maxRetries - 1)

\* what the loop receives from generateMarketSignal when the provider's
\* response has no probability: null, or the signal with the default
AbsentSignals == { NoSignal, Defaulted }

C29_LoopOwnsRunState ==
  [][ (/\ InFlightCount > 0
       /\ \/ \E w \in Wallets : UpdateBalances(w)
          \/ \E cfg \in Configs, a \in Allocations : Start(cfg, a))
      => /\ stats'.usdcBalance = stats.usdcBalance
         /\ stats'.cumulativeSpent = stats.cumulativeSpent
         /\ stats'.totalTrades = stats.totalTrades ]_vars

\* the step changes the specification allows
AllowedSteps ==
  { << "IDLE", "SCANNING" >>, << "SCANNING", "ANALYZING" >>,
    << "ANALYZING", "RISK_CHECK" >>, << "RISK_CHECK", "EXECUTING" >>,
    << "EXECUTING", "MONITORING" >>, << "MONITORING", "SCANNING" >> }

\* C30: the loop's step changes only along IDLE -> SCANNING -> ANALYZING ->
\* RISK_CHECK -> EXECUTING -> MONITORING -> SCANNING, or to EXHAUSTED from
\* the budget gate, or back to IDLE on manual stop.
C30_StepOrder ==
  calc.fn = "App"
    => \A i \in 1..(Len(calc.trail) - 1) :
         \/ calc.trail[i + 1] = calc.trail[i]
         \/ calc.trail[i + 1] \in { "EXHAUSTED", "IDLE" }
         \/ << calc.trail[i], calc.trail[i + 1] >> \in AllowedSteps

\* C31: whenever the agent is not running the step is IDLE or EXHAUSTED; an
\* iteration that was in flight when the stop happened does not overwrite
\* the step when it goes on or finishes.
C31_StoppedStepIdle ==
  (impl = "kernel" /\ ~running) => calc.currentStep \in { "IDLE", "EXHAUSTED" }

\* C38: the execution lock is set exactly while an iteration is in flight:
\* every way an iteration ends (completed, every candidate skipped, early
\* return, swallowed fault) releases it, so with no iteration in flight a
\* timer that fires finds the lock free.
C38_LockReleased ==
  impl = "kernel" =>
    /\ calc.isExecuting <=> InFlightCount > 0
    /\ InFlightCount <= 1

\* an iteration that traded has ended: the lock is free and the next timer
\* is pending
C38_Witness ==
  /\ impl = "kernel"
  /\ calc.currentStep = "MONITORING"
  /\ stats.totalTrades > 0
  /\ ~calc.isExecuting
  /\ TimerCount = 1

\* the order book the iteration holds for the candidate of chain l: the one
\* it fetched, or none in a loop that fetches none
FetchedBook(l) == IF "book" \in DOMAIN l THEN l.book ELSE NoBook

\* C32: the Estimator is never awaited for a candidate whose order book is
\* absent or whose spread is above config.maxSpread: every iteration that is
\* suspended at the Estimator call holds a fetched book that passed the
\* spread pre-filter.
C32_BookBeforeEstimator ==
  \A l \in Chains :
    l.pc = "signal" =>
      /\ FetchedBook(l) # NoBook
      /\ config # NoConfig => ~SpreadTooWide(FetchedBook(l), config.maxSpread)

\* C33: every decision point of an iteration emits a log record: whatever
\* ends the evaluation of a candidate (absent book, spread, absent signal,
\* EV, confidence, size, liquidity, fill, fault), a record reporting it is
\* among the records the candidate produced.
C33_DecisionLogged ==
  calc.fn = "evaluateCandidate" =>
    \E i \in 1..Len(calc.out) : calc.decision \in calc.out[i].about

\* the labels that mark the positive outcome
PositiveLabels == { "yes", "true", "will happen", "hit", "over" }

\* C34: of a tradable raw market the yes token is the first token whose
\* label matches a positive label without regard to case, or the first
\* token when none matches; a returned market has a non-empty yes token
\* id, and a market without tokens neither fails the listing nor is returned
\* with an empty token id.
C34_YesTokenChoice ==
  calc.fn = "selectYesToken" =>
    /\ ~calc.out.failed
    /\ calc.out.listed =>
         /\ calc.out.yesTokenId # ""
         /\ calc.isArray /\ calc.tokens # << >>
         /\ calc.out.yesTokenId =
              orElse(find(calc.tokens, PositiveLabels), first(calc.tokens)).token_id

\* C35: once the spread check has passed, hasSufficientLiquidity is true
\* exactly when the depth over the first min(5, levels) ask levels reaches
\* tradeSize * config.minLiquidityMultiplier; no fixed minimum depth and no
\* other multiplier decides.
C35_DepthRule ==
  (calc.fn = "hasSufficientLiquidity" /\ ~SpreadTooWide(calc.book, calc.cfg.maxSpread))
    => (calc.out <=>
          availableDepth(calc.book) * 1000
            >= calc.tradeSize * calc.cfg.minLiquidityMultiplier)

\* C36: hard capital cap: a trade is never larger than the budget that
\* remains when it is executed (allocatedCapital - cumulativeSpent), so the
\* run never spends more than was allocated to it.
C36_HardCapitalCap ==
  impl = "app" => stats.cumulativeSpent <= stats.allocatedCapital

\* C37: a start call on an engine that is already running changes nothing:
\* config, running flag, timers and loops stay as they are (no second loop),
\* and cumulativeSpent and the trade list of the run in progress are not
\* reset.
C37_StartWhileRunningNoOp ==
  [][ ( running /\ \E cfg \in Configs :
                     \/ \E a \in Allocations : Start(cfg, a)
                     \/ \E address \in BOOLEAN : startBot(cfg, address) )
        => /\ running'
           /\ config' = config
           /\ loops' = loops
           /\ stats'.cumulativeSpent = stats.cumulativeSpent
           /\ activeTrades' = activeTrades ]_vars

\* the balance the trade recorded by this step was sized with: the RunState
\* balance in TradingCore, the balance parameter of runIteration in the
\* backend
SizedWith(l) == IF impl = "core" THEN stats.usdcBalance ELSE l.balance

\* C39: with maxExposurePerTrade <= 1 and a non-negative balance, the
\* position size of both risk managers is never negative and never above
\* maxExposurePerTrade times the balance; every trade a run records has a
\* size > 0 and at most maxExposurePerTrade times the balance it was sized
\* with; and the RunState balance never becomes negative.
C39_ExposureBound ==
  /\ [] ( /\ impl \in {"core", "backend"} => stats.usdcBalance >= 0
          /\ ( calc.fn = "positionSize"
               /\ calc.by \in { "RiskManager.calculatePositionSize",
                                "calculatePositionSize" }
               /\ calc.cfg.maxExposurePerTrade <= 1000 /\ calc.balance >= 0 )
             => /\ calc.out >= 0
                /\ calc.out * 1000 <= calc.cfg.maxExposurePerTrade * calc.balance )
  /\ [][ (activeTrades' # activeTrades /\ activeTrades' # << >>)
           => /\ Head(activeTrades').size > 0
              /\ \E l \in Chains :
                   /\ \E l2 \in BagToSet(loops') \cup {Idle} : ChainStep(l, l2)
                   /\ Head(activeTrades').size * 1000
                        <= config.maxExposurePerTrade * SizedWith(l) ]_vars

\* a run has recorded two trades and its balance went down with them
C39_Witness ==
  /\ impl = "core"
  /\ Len(activeTrades) >= 2
  /\ stats.usdcBalance < Funded.usdc
  /\ stats.usdcBalance >= 0

====
